---- MODULE Spec2Model ----
(***************************************************************************)
(* Festival schedule board: the act store, the HTTP handlers that record   *)
(* actual times, and the slip / projection functions computed over the     *)
(* act list.                                                               *)
(*                                                                         *)
(* A time of day is the number of whole seconds since midnight             *)
(* (0 .. DaySeconds-1); recorded times are taken at whole-second           *)
(* resolution.  An Optional[time] is None (the empty tuple) or <<t>>.      *)
(***************************************************************************)
EXTENDS Integers, Sequences, FiniteSets, TLC

VARIABLES
    schedule,   \* store._schedule: the list of Act records the store owns
    last,       \* the last HTTP request handled and what it answered
    acts,       \* the act list handed to calculate_slip / project_times
    slipIn,     \* the slip argument handed to project_times
    result,     \* what the last call of a pure function returned
    listener,   \* the ArtNetListener: its configuration and _last_value
    datagram,   \* the bytes handed to parse_packet and what it returned
    calls,      \* the 16-bit values handed to handle_value, in order
    callbacks,  \* the nits handed to the listener's callback, in order
    value16,    \* the argument handed to calculate_nits
    websockets, \* each WebSocket: "new", "open" or "closed" by its client
    active_connections, \* manager.active_connections, in insertion order
    current_brightness, \* manager.current_brightness
    tasks,      \* the broadcasts started and the handle_value tasks created
    inflight,   \* the tasks suspended in send_text, in the order of the sends
    received    \* the messages each WebSocket's client received, in order

storeVars == <<schedule, last>>

slipVars == <<acts, slipIn, result>>

artVars == <<listener, datagram, calls, callbacks, value16>>

wsVars == <<websockets, active_connections, current_brightness, tasks,
            inflight, received>>

vars == <<schedule, last, acts, slipIn, result,
          listener, datagram, calls, callbacks, value16,
          websockets, active_connections, current_brightness, tasks,
          inflight, received>>

-----------------------------------------------------------------------------
(* Bounds of the model *)

\* how many acts of the store's running order the model keeps
NumActs == 3

\* longest act list handed to the slip functions
MaxActs == 2

\* how many WebSockets ever connect
MaxClients == 2

\* how many broadcasts and handle_value tasks are started
MaxTasks == 2

-----------------------------------------------------------------------------
(* Time of day *)

DaySeconds == 24 * 60 * 60

T(h, m) == h * 3600 + m * 60

None == << >>

Some(x) == <<x>>

\* `if act.actual_end:` -- a datetime.time is always truthy, so the test is
\* "is not None"
Truthy(opt) == opt # None

Max(a, b) == IF a >= b THEN a ELSE b

-----------------------------------------------------------------------------
(* app/models.py: Act *)

Act(name, ss, se, as, ae) ==
    [act_name |-> name, scheduled_start |-> ss, scheduled_end |-> se,
     actual_start |-> as, actual_end |-> ae]

scheduled_duration(act) == act.scheduled_end - act.scheduled_start

end_variance(act) ==
    IF Truthy(act.actual_end)
    THEN Some(act.actual_end[1] - act.scheduled_end)
    ELSE None

is_complete(act) == act.actual_start # None /\ act.actual_end # None

is_in_progress(act) == act.actual_start # None /\ act.actual_end = None

is_pending(act) == act.actual_start = None

-----------------------------------------------------------------------------
(* app/slip.py *)

add_seconds_to_time(t, seconds) == (t + seconds) % DaySeconds

\* `act.end_variance or 0`: None and 0 both give 0
OrZero(opt) == IF opt = None THEN 0 ELSE IF opt[1] = 0 THEN 0 ELSE opt[1]

\* SlipStep without the floor at 0: the variance itself becomes the slip
SlipStepNoFloor(act, slip) ==
    IF Truthy(act.actual_end)
    THEN OrZero(end_variance(act))
    ELSE IF Truthy(act.actual_start) /\ ~Truthy(act.actual_end)
         THEN (act.actual_start[1] + scheduled_duration(act))
                  - act.scheduled_end
         ELSE slip

\* SlipStep that keeps the largest slip seen instead of overwriting it
SlipStepKeepsMax(act, slip) ==
    IF Truthy(act.actual_end)
    THEN Max(slip, OrZero(end_variance(act)))
    ELSE IF Truthy(act.actual_start) /\ ~Truthy(act.actual_end)
         THEN Max(slip, (act.actual_start[1] + scheduled_duration(act))
                           - act.scheduled_end)
         ELSE slip

\* one turn of the loop of calculate_slip: the slip after looking at act
SlipStep(act, slip) ==
    IF Truthy(act.actual_end)
    THEN Max(0, OrZero(end_variance(act)))
    ELSE IF Truthy(act.actual_start) /\ ~Truthy(act.actual_end)
         THEN Max(0, (act.actual_start[1] + scheduled_duration(act))
                        - act.scheduled_end)
         ELSE slip

RECURSIVE SlipLoop(_, _, _)
SlipLoop(al, i, slip) ==
    IF i > Len(al) THEN slip ELSE SlipLoop(al, i + 1, SlipStep(al[i], slip))

\* one turn of a loop that measures an in-progress act against the clock
SlipStepAtClock(act, slip, ct) ==
    IF Truthy(act.actual_start) /\ ~Truthy(act.actual_end)
    THEN Max(0, ct - act.scheduled_end)
    ELSE SlipStep(act, slip)

RECURSIVE SlipLoopAtClock(_, _, _, _)
SlipLoopAtClock(al, i, slip, ct) ==
    IF i > Len(al) THEN slip
    ELSE SlipLoopAtClock(al, i + 1, SlipStepAtClock(al[i], slip, ct), ct)

\* calculate_slip that lets an in-progress act past its scheduled end add
\* to the slip
CalculateSlipUsesClock(al, current_time, now) ==
    LET ct == IF current_time = None THEN now ELSE current_time[1]
    IN  SlipLoopAtClock(al, 1, 0, ct)

\* current_time defaults to the clock and is not read afterwards
calculate_slip(al, current_time, now) ==
    LET ct == IF current_time = None THEN now ELSE current_time[1]
    IN  SlipLoop(al, 1, 0)

\* Projection that shifts an in-progress act's scheduled end by the slip
\* instead of adding the scheduled duration to its actual start
ProjectionEndFromSchedule(act, slip) ==
    IF is_complete(act)
    THEN [act_name |-> act.act_name,
          projected_start |-> act.actual_start[1],
          projected_end |-> act.actual_end[1],
          status |-> "complete"]
    ELSE IF is_in_progress(act)
    THEN [act_name |-> act.act_name,
          projected_start |-> act.actual_start[1],
          projected_end |-> add_seconds_to_time(act.scheduled_end, slip),
          status |-> "in_progress"]
    ELSE [act_name |-> act.act_name,
          projected_start |-> add_seconds_to_time(act.scheduled_start, slip),
          projected_end |-> add_seconds_to_time(act.scheduled_end, slip),
          status |-> "pending"]

\* the dict project_times appends for one act
Projection(act, slip) ==
    IF is_complete(act)
    THEN [act_name |-> act.act_name,
          projected_start |-> act.actual_start[1],
          projected_end |-> act.actual_end[1],
          status |-> "complete"]
    ELSE IF is_in_progress(act)
    THEN [act_name |-> act.act_name,
          projected_start |-> act.actual_start[1],
          projected_end |->
              (act.actual_start[1] + scheduled_duration(act)) % DaySeconds,
          status |-> "in_progress"]
    ELSE [act_name |-> act.act_name,
          projected_start |-> add_seconds_to_time(act.scheduled_start, slip),
          projected_end |-> add_seconds_to_time(act.scheduled_end, slip),
          status |-> "pending"]

RECURSIVE ProjectLoop(_, _, _, _)
ProjectLoop(al, slip, i, projections) ==
    IF i > Len(al) THEN projections
    ELSE ProjectLoop(al, slip, i + 1,
                     Append(projections, Projection(al[i], slip)))

project_times(al, slip) == ProjectLoop(al, slip, 1, << >>)

\* calculate_break_remaining that tests the current act's start
BreakRemainingTestsStart(current_act, next_act, slip, current_time, now) ==
    LET ct == IF current_time = None THEN now ELSE current_time[1]
    IN  IF ~Truthy(current_act.actual_start) THEN None
        ELSE Some(add_seconds_to_time(next_act.scheduled_start, slip) - ct)

\* both times are put on the same date, so the difference is that of the
\* two times of day
calculate_break_remaining(current_act, next_act, slip, current_time, now) ==
    LET ct == IF current_time = None THEN now ELSE current_time[1]
    IN  IF ~Truthy(current_act.actual_end) THEN None
        ELSE Some(add_seconds_to_time(next_act.scheduled_start, slip) - ct)

-----------------------------------------------------------------------------
(* app/artnet.py: the listener as main.py constructs it *)

\* a listener of that configuration that has handled no value yet
ArtNetListener(universe, channel_high, channel_low) ==
    [universe |-> universe, channel_high |-> channel_high,
     channel_low |-> channel_low, last_value |-> None]

\* settings.ARTNET_UNIVERSE / ARTNET_CHANNEL_HIGH / ARTNET_CHANNEL_LOW
DefaultListener == ArtNetListener(0, 1, 2)

\* no packet received, no value handled
ArtIdle ==
    /\ listener = DefaultListener
    /\ datagram = [data |-> << >>, out |-> [kind |-> "not parsed"]]
    /\ calls = << >>
    /\ callbacks = << >>
    /\ value16 = 0

-----------------------------------------------------------------------------
(* app/websocket.py: the manager before any connection *)

WebSockets == 1..MaxClients

WsIdle ==
    /\ websockets = [ws \in WebSockets |-> "new"]
    /\ active_connections = << >>
    /\ current_brightness = 0
    /\ tasks = << >>
    /\ inflight = << >>
    /\ received = [ws \in WebSockets |-> << >>]

-----------------------------------------------------------------------------
(* app/store.py *)

\* store._schedule as the module builds it: the running order, all pending
FullSchedule ==
    << Act("Sunrise Collective", T(11, 30), T(12, 0),  None, None),
       Act("Desert Echoes",      T(12, 0),  T(13, 45), None, None),
       Act("Neon Mirage",        T(14, 0),  T(15, 0),  None, None),
       Act("Cosmic Wanderers",   T(15, 15), T(16, 15), None, None),
       Act("Valley Vibes",       T(16, 30), T(17, 30), None, None),
       Act("Mojave Dreams",      T(18, 0),  T(19, 15), None, None),
       Act("Indio Nights",       T(19, 45), T(21, 0),  None, None),
       Act("The Headliners",     T(21, 30), T(23, 30), None, None) >>

\* the model keeps the first NumActs acts of the running order
InitialSchedule == SubSeq(FullSchedule, 1, NumActs)

ActNames == {InitialSchedule[i].act_name : i \in 1..NumActs}

\* `for i, act in enumerate(_schedule): if act.act_name == act_name:` --
\* the index of the first act of that name, 0 when the loop falls through
RECURSIVE FindFrom(_, _, _)
FindFrom(s, act_name, i) ==
    IF i > Len(s) THEN 0
    ELSE IF s[i].act_name = act_name THEN i
    ELSE FindFrom(s, act_name, i + 1)

\* Find that keeps the loop's last index when no name matched
FindKeepsLastIndex(s, act_name) ==
    IF FindFrom(s, act_name, 1) = 0 THEN Len(s) ELSE FindFrom(s, act_name, 1)

Find(s, act_name) == FindFrom(s, act_name, 1)

\* get_schedule: `_schedule.copy()`, a new list of the same acts
get_schedule(s) == [i \in 1..Len(s) |-> s[i]]

\* update_actual_start that restarts the act: it drops the recorded end
UpdateStartDropsEnd(s, act_name, actual_time) ==
    LET i == Find(s, act_name)
        s2 == [s EXCEPT ![i].actual_start = Some(actual_time),
                        ![i].actual_end = None]
    IN  IF i = 0 THEN [schedule |-> s, ret |-> None]
        ELSE [schedule |-> s2, ret |-> Some(s2[i])]

\* clear_actual_times that clears the start and keeps the end
ClearKeepsEnd(s, act_name) ==
    LET i == Find(s, act_name)
        s2 == [s EXCEPT ![i].actual_start = None]
    IN  IF i = 0 THEN [schedule |-> s, ret |-> None]
        ELSE [schedule |-> s2, ret |-> Some(s2[i])]

\* each store update gives the new list and the value it returns
update_actual_start(s, act_name, actual_time) ==
    LET i == Find(s, act_name)
        s2 == [s EXCEPT ![i].actual_start = Some(actual_time)]
    IN  IF i = 0 THEN [schedule |-> s, ret |-> None]
        ELSE [schedule |-> s2, ret |-> Some(s2[i])]

update_actual_end(s, act_name, actual_time) ==
    LET i == Find(s, act_name)
        s2 == [s EXCEPT ![i].actual_end = Some(actual_time)]
    IN  IF i = 0 THEN [schedule |-> s, ret |-> None]
        ELSE [schedule |-> s2, ret |-> Some(s2[i])]

clear_actual_times(s, act_name) ==
    LET i == Find(s, act_name)
        s2 == [s EXCEPT ![i].actual_start = None, ![i].actual_end = None]
    IN  IF i = 0 THEN [schedule |-> s, ret |-> None]
        ELSE [schedule |-> s2, ret |-> Some(s2[i])]

-----------------------------------------------------------------------------
(* main.py: the HTTP handlers *)

\* datetime.now().time(): the server may run across midnight, so a request
\* may read any time of day; the model draws it from these
Clock == {T(12, 10), T(13, 40)}

UnknownAct == "Unknown Act"

\* the act names a request path may carry
RequestNames == ActNames \cup {UnknownAct, "Sunrise%20Collective"}

\* urllib.parse.unquote on the request names of the model
unquote(name) ==
    IF name = "Sunrise%20Collective" THEN "Sunrise Collective" ELSE name

Answer(op, name, status, broadcast) ==
    [op |-> op, act_name |-> name, status |-> status, broadcast |-> broadcast]

\* POST /acts/{act_name}/start
record_start(reqName) ==
    \E current_time \in Clock :
        LET act_name == unquote(reqName)
            r == update_actual_start(schedule, act_name, current_time)
        IN  /\ schedule' = r.schedule
            /\ last' = Answer("start", act_name, "ok", r.ret # None)
            /\ UNCHANGED <<slipVars, artVars, wsVars>>

\* POST /acts/{act_name}/end
record_end(reqName) ==
    \E current_time \in Clock :
        LET act_name == unquote(reqName)
            r == update_actual_end(schedule, act_name, current_time)
        IN  /\ schedule' = r.schedule
            /\ last' = Answer("end", act_name, "ok", r.ret # None)
            /\ UNCHANGED <<slipVars, artVars, wsVars>>

\* POST /acts/{act_name}/clear: `act` is a local of the handler and is read
\* (act.act_name) before it is bound, so the handler raises before it
\* reaches the store
clear_times(reqName) ==
    LET act_name == unquote(reqName)
    IN  /\ last' = Answer("clear", act_name, "raised", FALSE)
        /\ UNCHANGED <<schedule, slipVars, artVars, wsVars>>

RECURSIVE ResetLoop(_, _, _)
ResetLoop(s, copy, i) ==
    IF i > Len(copy) THEN s
    ELSE ResetLoop(clear_actual_times(s, copy[i].act_name).schedule, copy,
                   i + 1)

\* POST /api/reset
reset_data ==
    /\ schedule' = ResetLoop(schedule, schedule, 1)
    /\ last' = Answer("reset", "", "reset", TRUE)
    /\ UNCHANGED <<slipVars, artVars, wsVars>>

Idle == [fn |-> "none", value |-> 0]

Init ==
    /\ schedule = InitialSchedule
    /\ last = Answer("none", "", "none", FALSE)
    /\ acts = << >>
    /\ slipIn = 0
    /\ result = Idle
    /\ ArtIdle
    /\ WsIdle

Next ==
    \/ \E n \in RequestNames : record_start(n)
    \/ \E n \in RequestNames : record_end(n)
    \/ \E n \in RequestNames : clear_times(n)
    \/ reset_data

Spec == Init /\ [][Next]_vars

-----------------------------------------------------------------------------
(* The slip functions called on an act list (app/slip.py, tests/test_slip.py) *)

\* scheduled windows of the act lists: the window of the slip tests and the
\* last act of the store's running order
Windows ==
    { <<"Test", T(12, 0), T(13, 0)>>,
      <<"The Headliners", T(21, 30), T(23, 30)>> }

\* recorded times of the act lists
Times == {T(12, 10), T(13, 0), T(23, 50)}

OptTimes == {None} \cup {Some(t) : t \in Times}

ActPool ==
    {Act(w[1], w[2], w[3], as, ae) : w \in Windows, as \in OptTimes,
                                     ae \in OptTimes}

ActLists == UNION {[1..n -> ActPool] : n \in 0..MaxActs}

\* slip arguments: none, ten minutes, half an hour, and three hours (which
\* takes a 21:30 start past midnight)
SlipValues == {0, 10 * 60, 30 * 60, 3 * 60 * 60}

CallCalculateSlip ==
    \E current_time \in {None} \cup {Some(t) : t \in Clock}, now \in Clock :
        /\ result' = [fn |-> "calculate_slip",
                      value |-> calculate_slip(acts, current_time, now),
                      at |-> IF current_time = None THEN now
                             ELSE current_time[1]]
        /\ UNCHANGED <<storeVars, acts, slipIn, artVars, wsVars>>

CallProjectTimes ==
    /\ result' = [fn |-> "project_times",
                  value |-> project_times(acts, slipIn)]
    /\ UNCHANGED <<storeVars, acts, slipIn, artVars, wsVars>>

\* the break between an act of the list and the one after it
CallBreakRemaining ==
    \E i \in 1..(Len(acts) - 1),
       current_time \in {None} \cup {Some(t) : t \in Clock}, now \in Clock :
        /\ result' = [fn |-> "calculate_break_remaining",
                      value |-> calculate_break_remaining(acts[i], acts[i + 1],
                                    slipIn, current_time, now),
                      current |-> i,
                      at |-> IF current_time = None THEN now
                             ELSE current_time[1]]
        /\ UNCHANGED <<storeVars, acts, slipIn, artVars, wsVars>>

PureInit ==
    /\ schedule = InitialSchedule
    /\ last = Answer("none", "", "none", FALSE)
    /\ acts \in ActLists
    /\ slipIn \in SlipValues
    /\ result = Idle
    /\ ArtIdle
    /\ WsIdle

PureNext ==
    \/ CallCalculateSlip
    \/ CallProjectTimes
    \/ CallBreakRemaining

PureSpec == PureInit /\ [][PureNext]_vars

-----------------------------------------------------------------------------
(* Claims about calculate_slip *)

\* the act's lifecycle state, from the presence of its actual times
Lifecycle(act) ==
    IF act.actual_start = None THEN "pending"
    ELSE IF act.actual_end = None THEN "in_progress"
    ELSE "complete"

Started(act) == Lifecycle(act) \in {"in_progress", "complete"}

\* the slip a complete or in-progress act stands for
Candidate(act) ==
    IF Lifecycle(act) = "complete"
    THEN Max(0, act.actual_end[1] - act.scheduled_end)
    ELSE Max(0, (act.actual_start[1]
                   + (act.scheduled_end - act.scheduled_start))
                - act.scheduled_end)

\* index of the last complete or in-progress act of the list, 0 if none
LastStarted(al) ==
    IF \E i \in 1..Len(al) : Started(al[i])
    THEN CHOOSE i \in 1..Len(al) :
             /\ Started(al[i])
             /\ \A k \in (i + 1)..Len(al) : ~Started(al[k])
    ELSE 0

SlipReturned == result.fn = "calculate_slip"

\* C1: calculate_slip returns the candidate slip of the last act of the
\* list that is complete or in progress, and 0 when no act is
C1_LastStartedActDecides ==
    SlipReturned =>
        result.value = IF LastStarted(acts) = 0 THEN 0
                       ELSE Candidate(acts[LastStarted(acts)])

FinishedLate(act) == Lifecycle(act) = "complete" /\ Candidate(act) > 0

FinishedEarlyOrOnTime(act) ==
    Lifecycle(act) = "complete" /\ act.actual_end[1] <= act.scheduled_end

NoTimeRecorded(act) == act.actual_start = None /\ act.actual_end = None

\* C3, as claimed: when an earlier act finished late and a later act
\* finishes early or on time, the slip of the whole list is not smaller
\* than the earlier act's slip
C3_EarlyFinishKeepsSlip ==
    SlipReturned =>
        \A i, j \in 1..Len(acts) :
            (i < j /\ FinishedLate(acts[i]) /\ FinishedEarlyOrOnTime(acts[j]))
                => result.value >= Candidate(acts[i])

\* the list holds a late act, then an act finished early or on time, and no
\* recorded time after that one
LateThenEarlyLast(i, j) ==
    /\ i < j
    /\ FinishedLate(acts[i])
    /\ FinishedEarlyOrOnTime(acts[j])
    /\ \A k \in (j + 1)..Len(acts) : NoTimeRecorded(acts[k])

\* C3, amended: when an earlier act finished late and a later act finishes
\* early or on time, with no time recorded on any act after it, the slip of
\* the whole list is 0: never negative, but the earlier act's slip is lost
C3_EarlyFinishResetsSlip ==
    SlipReturned =>
        \A i, j \in 1..Len(acts) :
            LateThenEarlyLast(i, j) => result.value = 0

C3_Witness ==
    /\ SlipReturned
    /\ \E i, j \in 1..Len(acts) :
           /\ LateThenEarlyLast(i, j)
           /\ result.value < Candidate(acts[i])

NotPending(act) == ~is_pending(act)

\* C4: pending acts (no actual_start, with or without an actual_end) do not
\* affect slip: the slip of the list is the slip of the list without them
C4_PendingActsIgnored ==
    SlipReturned =>
        \A now \in Clock :
            result.value = calculate_slip(SelectSeq(acts, NotPending), None, now)

-----------------------------------------------------------------------------
(* Claims about project_times *)

Projected == result.fn = "project_times"

\* C5: one projection per act, in input order: actual times for a complete
\* act, actual start and actual start + scheduled duration for one in
\* progress, scheduled times + slip for any other; the status is the act's
\* lifecycle state
C5_ProjectionPerAct ==
    Projected =>
        /\ Len(result.value) = Len(acts)
        /\ \A i \in 1..Len(acts) :
            LET act == acts[i]
                p == result.value[i]
                duration == act.scheduled_end - act.scheduled_start
            IN  /\ p.act_name = act.act_name
                /\ p.status = Lifecycle(act)
                /\ Lifecycle(act) = "complete" =>
                       /\ p.projected_start = act.actual_start[1]
                       /\ p.projected_end = act.actual_end[1]
                /\ Lifecycle(act) = "in_progress" =>
                       /\ p.projected_start = act.actual_start[1]
                       /\ p.projected_end =
                              (act.actual_start[1] + duration) % DaySeconds
                /\ Lifecycle(act) = "pending" =>
                       /\ p.projected_start =
                              (act.scheduled_start + slipIn) % DaySeconds
                       /\ p.projected_end =
                              (act.scheduled_end + slipIn) % DaySeconds

\* a list with an act of each lifecycle state, one of them projected past
\* midnight, has been projected with a slip
C5_Witness ==
    /\ Projected
    /\ slipIn > 0
    /\ \E i, j \in 1..Len(acts) :
           /\ Lifecycle(acts[i]) = "in_progress"
           /\ acts[i].actual_start[1] + scheduled_duration(acts[i])
                  >= DaySeconds
           /\ Lifecycle(acts[j]) = "pending"
           /\ acts[j].actual_end # None

\* C6: a pending act is never projected earlier than scheduled, as times of
\* day, whatever the slip >= 0
C6_PendingNeverEarlier ==
    Projected =>
        \A i \in 1..Len(acts) :
            is_pending(acts[i]) =>
                /\ result.value[i].projected_start >= acts[i].scheduled_start
                /\ result.value[i].projected_end >= acts[i].scheduled_end

-----------------------------------------------------------------------------
(* Claims about the store and the HTTP handlers *)

\* C1 on the lists where every act with an actual_end has an actual_start
C1_HoldsWithoutEndOnlyActs ==
    (\A i \in 1..Len(acts) :
         acts[i].actual_end # None => acts[i].actual_start # None)
        => C1_LastStartedActDecides

\* C2: in every schedule the start, end and clear requests can reach,
\* calculate_slip is an integer >= 0
C2_SlipNonNegative ==
    \A now \in Clock : calculate_slip(schedule, None, now) \in Nat

\* the last act with a recorded time ended before its scheduled end, and an
\* earlier act ended late
C2_Witness ==
    /\ last.op = "end"
    /\ \E i, j \in 1..Len(schedule) :
           /\ i < j
           /\ schedule[i].actual_end # None
           /\ schedule[i].actual_end[1] > schedule[i].scheduled_end
           /\ schedule[j].actual_end # None
           /\ schedule[j].actual_end[1] < schedule[j].scheduled_end
           /\ \A k \in (j + 1)..Len(schedule) : NoTimeRecorded(schedule[k])
    /\ \A now \in Clock : calculate_slip(schedule, None, now) = 0

\* C7: an act's lifecycle state moves one step forward at a time, pending
\* to in_progress to complete, or is reset to pending by a clear
C7_LifecycleMovesForward ==
    [][\A i \in 1..Len(schedule) :
           LET before == Lifecycle(schedule[i])
               after == Lifecycle(schedule'[i])
           IN  \/ after = before
               \/ before = "pending" /\ after = "in_progress"
               \/ before = "in_progress" /\ after = "complete"
               \/ after = "pending" /\ last'.op \in {"clear", "reset"}]_vars

\* C8: every act with an actual_end has an actual_start
C8_EndImpliesStart ==
    \A i \in 1..Len(schedule) :
        schedule[i].actual_end # None => schedule[i].actual_start # None

\* C9: a start request for act B handled while another act A is in progress
\* sets A's actual_end and leaves B in progress
C9_StartAutoCompletes ==
    [][\A a, b \in 1..Len(schedule) :
           (/\ a # b
            /\ last'.op = "start"
            /\ last'.act_name = schedule[b].act_name
            /\ is_in_progress(schedule[a]))
               => /\ schedule'[a].actual_end # None
                  /\ is_in_progress(schedule'[b])]_vars

NotFound(s) == [schedule |-> s, ret |-> None]

\* C10: for a name that matches no act the three store updates return None
\* and leave the schedule as it is, and the start and end handlers answer
\* ok without a broadcast
C10_UnknownNameChangesNothing ==
    /\ [](\A name \in {UnknownAct, "Sunrise%20Collective"}, t \in Clock :
              /\ update_actual_start(schedule, name, t) = NotFound(schedule)
              /\ update_actual_end(schedule, name, t) = NotFound(schedule)
              /\ clear_actual_times(schedule, name) = NotFound(schedule))
    /\ [][(/\ last'.op \in {"start", "end"}
           /\ \A i \in 1..Len(schedule) :
                  schedule[i].act_name # last'.act_name)
              => /\ schedule' = schedule
                 /\ last'.status = "ok"
                 /\ last'.broadcast = FALSE]_vars

\* an unknown act was started on a schedule that holds recorded times
C10_Witness ==
    /\ last = Answer("start", UnknownAct, "ok", FALSE)
    /\ \E i \in 1..Len(schedule) : is_complete(schedule[i])
    /\ \E i \in 1..Len(schedule) : is_in_progress(schedule[i])

-----------------------------------------------------------------------------
(* The store called directly (app/store.py, tests/test_store.py) *)

StoreNames == ActNames \cup {UnknownAct}

\* which times the act of that name holds: "pending", "in_progress",
\* "complete", "end_only", or "unknown" when no act has the name
TimesHeld(s, act_name) ==
    LET i == Find(s, act_name)
    IN  IF i = 0 THEN "unknown"
        ELSE IF s[i].actual_start # None
             THEN (IF s[i].actual_end # None THEN "complete"
                   ELSE "in_progress")
             ELSE (IF s[i].actual_end # None THEN "end_only" ELSE "pending")

\* a store call: its arguments, what the act held before it (kept for a
\* clear), and the value it returned
StoreAnswer(op, name, time, prior, ret) ==
    [op |-> op, act_name |-> name, time |-> time, prior |-> prior,
     ret |-> ret]

CallGetSchedule ==
    /\ last' = StoreAnswer("get_schedule", "", None, "",
                           Some(get_schedule(schedule)))
    /\ UNCHANGED <<schedule, slipVars, artVars, wsVars>>

CallUpdateActualStart ==
    \E act_name \in StoreNames, actual_time \in Clock :
        LET r == update_actual_start(schedule, act_name, actual_time)
        IN  /\ schedule' = r.schedule
            /\ last' = StoreAnswer("update_actual_start", act_name,
                                   Some(actual_time), "", r.ret)
            /\ UNCHANGED <<slipVars, artVars, wsVars>>

CallUpdateActualEnd ==
    \E act_name \in StoreNames, actual_time \in Clock :
        LET r == update_actual_end(schedule, act_name, actual_time)
        IN  /\ schedule' = r.schedule
            /\ last' = StoreAnswer("update_actual_end", act_name,
                                   Some(actual_time), "", r.ret)
            /\ UNCHANGED <<slipVars, artVars, wsVars>>

CallClearActualTimes ==
    \E act_name \in StoreNames :
        LET r == clear_actual_times(schedule, act_name)
        IN  /\ schedule' = r.schedule
            /\ last' = StoreAnswer("clear_actual_times", act_name, None,
                                   TimesHeld(schedule, act_name), r.ret)
            /\ UNCHANGED <<slipVars, artVars, wsVars>>

StoreInit ==
    /\ schedule = InitialSchedule
    /\ last = StoreAnswer("none", "", None, "", None)
    /\ acts = << >>
    /\ slipIn = 0
    /\ result = Idle
    /\ ArtIdle
    /\ WsIdle

StoreNext ==
    \/ CallGetSchedule
    \/ CallUpdateActualStart
    \/ CallUpdateActualEnd
    \/ CallClearActualTimes

StoreSpec == StoreInit /\ [][StoreNext]_vars

\* C11: after clear_actual_times on a known act, the act is pending with
\* actual_start and actual_end both unset, whatever it held before, and that
\* is the act get_schedule gives
C11_ClearResetsToPending ==
    (last.op = "clear_actual_times" /\ last.act_name \in ActNames) =>
        LET listed == get_schedule(schedule)
            i == CHOOSE k \in 1..Len(listed) :
                     listed[k].act_name = last.act_name
        IN  /\ last.ret # None
            /\ last.ret[1] = listed[i]
            /\ listed[i].actual_start = None
            /\ listed[i].actual_end = None
            /\ Lifecycle(listed[i]) = "pending"

\* a complete act has been cleared while another act holds times
C11_Witness ==
    /\ last.op = "clear_actual_times"
    /\ last.prior = "complete"
    /\ \E i \in 1..Len(schedule) : is_complete(schedule[i])

\* C12: the clear handler completes without raising for every name: a
\* known act is reset to pending and a broadcast follows, an unknown name
\* changes nothing and no broadcast follows
C12_ClearHandlerCompletes ==
    last.op = "clear" =>
        /\ last.status = "ok"
        /\ last.act_name \in ActNames =>
               /\ last.broadcast = TRUE
               /\ TimesHeld(schedule, last.act_name) = "pending"
        /\ last.act_name \notin ActNames => last.broadcast = FALSE

SameActsAsBuilt ==
    /\ Len(schedule) = Len(InitialSchedule)
    /\ \A i \in 1..Len(InitialSchedule) :
           /\ schedule[i].act_name = InitialSchedule[i].act_name
           /\ schedule[i].scheduled_start = InitialSchedule[i].scheduled_start
           /\ schedule[i].scheduled_end = InitialSchedule[i].scheduled_end

\* the schedule is the old one with that one field of the named act set
OnlyFieldSet(field) ==
    \E i \in 1..Len(schedule) :
        /\ schedule[i].act_name = last'.act_name
        /\ \A k \in 1..Len(schedule) : k # i => schedule'[k] = schedule[k]
        /\ Len(schedule') = Len(schedule)
        /\ schedule'[i] = [schedule[i] EXCEPT ![field] = last'.time]
        /\ last'.ret = Some(schedule'[i])

\* C19: the store keeps the acts, their order, names and scheduled times;
\* update_actual_start on a known name sets that act's actual_start to the
\* time given and update_actual_end its actual_end, and nothing else
C19_UpdatesTouchOneField ==
    /\ []SameActsAsBuilt
    /\ [][/\ (last'.op = "update_actual_start"
                 /\ last'.act_name \in ActNames)
               => OnlyFieldSet("actual_start")
          /\ (last'.op = "update_actual_end"
                 /\ last'.act_name \in ActNames)
               => OnlyFieldSet("actual_end")]_vars

\* a complete act has been started again and keeps its end, next to an act
\* in progress
C19_Witness ==
    /\ last.op = "update_actual_start"
    /\ TimesHeld(schedule, last.act_name) = "complete"
    /\ last.ret[1].actual_end # last.time
    /\ \E i \in 1..Len(schedule) : is_in_progress(schedule[i])

-----------------------------------------------------------------------------
(* app/artnet.py: parse_packet *)

\* b"Art-Net\x00"
ARTNET_HEADER == <<65, 114, 116, 45, 78, 101, 116, 0>>

\* 0x5000
ARTNET_OPCODE_DMX == 20480

\* fixed header and metadata: `if len(data) < 18`
MinPacketLen == 18

Min(a, b) == IF a <= b THEN a ELSE b

\* data[lo:hi] of a bytes object: the bytes at indices lo .. hi-1 that exist
Slice(data, lo, hi) == SubSeq(data, lo + 1, Min(hi, Len(data)))

\* int.from_bytes(two bytes, byteorder="little" / "big")
FromLittle(b) == b[1] + 256 * b[2]

FromBig(b) == 256 * b[1] + b[2]

\* dmx_data[index]: a negative index counts from the end; an index outside
\* -len .. len-1 raises IndexError (None here)
PyIndex(seq, index) ==
    IF 0 <= index /\ index < Len(seq) THEN Some(seq[index + 1])
    ELSE IF index < 0 /\ index >= - Len(seq)
         THEN Some(seq[Len(seq) + index + 1])
         ELSE None

ParsedValue(v) == [kind |-> "value", value |-> v]

ParsedNone == [kind |-> "None"]

RaisedIndexError == [kind |-> "IndexError"]

\* the low byte taken as the high one
CombineLowFirst(high_byte, low_byte) == (low_byte * 256) + high_byte

\* `(high_byte * 256) + low_byte`
Combine(high_byte, low_byte) == (high_byte * 256) + low_byte

parse_packet(self, data) ==
    IF Len(data) < MinPacketLen THEN ParsedNone
    ELSE IF Slice(data, 0, 8) # ARTNET_HEADER THEN ParsedNone
    ELSE IF FromLittle(Slice(data, 8, 10)) # ARTNET_OPCODE_DMX THEN ParsedNone
    ELSE IF FromLittle(Slice(data, 14, 16)) # self.universe THEN ParsedNone
    ELSE
      LET dmx_length == FromBig(Slice(data, 16, 18))
          max_channel == Max(self.channel_high, self.channel_low)
          dmx_data == Slice(data, 18, Len(data))
          high_index == self.channel_high - 1
          low_index == self.channel_low - 1
          high_byte == PyIndex(dmx_data, high_index)
          low_byte == PyIndex(dmx_data, low_index)
      IN  IF max_channel < 1 \/ max_channel > dmx_length THEN ParsedNone
          ELSE IF high_index >= Len(dmx_data) \/ low_index >= Len(dmx_data)
               THEN ParsedNone
          ELSE IF high_byte = None THEN RaisedIndexError
          ELSE IF low_byte = None THEN RaisedIndexError
          ELSE ParsedValue(Combine(high_byte[1], low_byte[1]))

-----------------------------------------------------------------------------
(* Packets received by a listener (ArtNetProtocol.datagram_received) *)

\* longest DMX payload of the packets
MaxPayload == 2

\* universes and channels a listener is configured with; channels below 1
\* are what an unvalidated ARTNET_CHANNEL_* setting can give
Universes == {0, 1}

Channels == {-2, 0, 1, 2}

Listeners ==
    {ArtNetListener(u, ch, cl) : u \in Universes, ch \in Channels,
                                 cl \in Channels}

\* bytes 0-7: the header, and one whose last byte is not NUL
HeaderBytes == {ARTNET_HEADER, <<65, 114, 116, 45, 78, 101, 116, 1>>}

\* bytes 8-9: 0x5000 little-endian, and the same bytes big-endian
OpcodeBytes == {<<0, 80>>, <<80, 0>>}

\* bytes 10-13: protocol version, sequence, physical port
UncheckedBytes == {<<0, 14, 0, 0>>, <<255, 255, 7, 3>>}

\* bytes 14-15: universe 0, 1 and 256 little-endian
UniverseBytes == {<<0, 0>>, <<1, 0>>, <<0, 1>>}

\* bytes 16-17: declared length 1, 2 and 512 big-endian
LengthBytes == {<<0, 1>>, <<0, 2>>, <<2, 0>>}

PayloadBytes == {18, 52}

Payloads == UNION {[1..n -> PayloadBytes] : n \in 0..MaxPayload}

FullPackets ==
    {h \o op \o un \o uv \o ln \o pl :
        h \in HeaderBytes, op \in OpcodeBytes, un \in UncheckedBytes,
        uv \in UniverseBytes, ln \in LengthBytes, pl \in Payloads}

\* a well-formed packet cut short of its 18 bytes
ShortPackets ==
    {SubSeq(ARTNET_HEADER \o <<0, 80, 0, 14, 0, 0, 0, 0, 0, 2>>, 1, n) :
        n \in {0, 7, 10, 17}}

Packets == FullPackets \cup ShortPackets

\* the listener's parse of the datagram that arrived
datagram_received ==
    /\ datagram.out.kind = "not parsed"
    /\ datagram' = [data |-> datagram.data,
                    out |-> parse_packet(listener, datagram.data)]
    /\ UNCHANGED <<storeVars, slipVars, listener, calls, callbacks, value16, wsVars>>

ParseInit ==
    /\ schedule = InitialSchedule
    /\ last = Answer("none", "", "none", FALSE)
    /\ acts = << >>
    /\ slipIn = 0
    /\ result = Idle
    /\ listener \in Listeners
    /\ datagram \in {[data |-> data, out |-> [kind |-> "not parsed"]] :
                         data \in Packets}
    /\ calls = << >>
    /\ callbacks = << >>
    /\ value16 = 0
    /\ WsIdle

ParseNext == datagram_received

ParseSpec == ParseInit /\ [][ParseNext]_vars

-----------------------------------------------------------------------------
(* Claims about parse_packet *)

Parsed == datagram.out.kind # "not parsed"

PacketBytes(lo, hi) ==
    [i \in 1..(hi - lo) |-> datagram.data[lo + i]]

DeclaredLength == 256 * datagram.data[17] + datagram.data[18]

PayloadLen == Len(datagram.data) - 18

\* the packet is one the decoder must reject: too short, wrong header, wrong
\* opcode, another universe, or a declared length below the larger channel
MustReject ==
    \/ Len(datagram.data) < 18
    \/ PacketBytes(0, 8) # <<65, 114, 116, 45, 78, 101, 116, 0>>
    \/ datagram.data[9] + 256 * datagram.data[10] # 20480
    \/ datagram.data[15] + 256 * datagram.data[16] # listener.universe
    \/ DeclaredLength < Max(listener.channel_high, listener.channel_low)

\* C13: parse_packet raises for no bytes and no channel configuration, and
\* returns no value for every packet that must be rejected
C13_RejectsWithoutRaising ==
    Parsed =>
        /\ datagram.out.kind \in {"value", "None"}
        /\ MustReject => datagram.out.kind = "None"

ValidIndex(channel) == 0 <= channel - 1 /\ channel - 1 < PayloadLen

\* every step of the validation pipeline passes
PassesValidation ==
    /\ ~MustReject
    /\ Max(listener.channel_high, listener.channel_low) >= 1
    /\ ValidIndex(listener.channel_high)
    /\ ValidIndex(listener.channel_low)

WithUnchecked(data, un) ==
    [i \in 1..Len(data) |-> IF i \in 11..14 THEN un[i - 10] ELSE data[i]]

\* C14: a packet that passes validation decodes to
\* payload[channel_high-1] * 256 + payload[channel_low-1], within 0..65535,
\* whatever bytes 10-13 hold
C14_DecodesHighLow ==
    (Parsed /\ PassesValidation) =>
        LET v == datagram.data[18 + listener.channel_high] * 256
                     + datagram.data[18 + listener.channel_low]
        IN  /\ datagram.out = [kind |-> "value", value |-> v]
            /\ v \in 0..65535
            /\ \A un \in UncheckedBytes :
                   parse_packet(listener, WithUnchecked(datagram.data, un))
                       = datagram.out

\* universe 0, channels 1/2, payload 0x12 0x34 under the other unchecked
\* bytes decodes to 4660
C14_Witness ==
    /\ Parsed
    /\ listener = ArtNetListener(0, 1, 2)
    /\ Len(datagram.data) = 20
    /\ PacketBytes(10, 14) = <<255, 255, 7, 3>>
    /\ PayloadLen = 2
    /\ PacketBytes(18, 20) = <<18, 52>>
    /\ datagram.out = [kind |-> "value", value |-> 4660]

\* C15: a value is returned only when channel_high-1 and channel_low-1 are
\* both indices of the payload
C15_ValueOnlyFromValidIndices ==
    (Parsed /\ datagram.out.kind = "value") =>
        /\ ValidIndex(listener.channel_high)
        /\ ValidIndex(listener.channel_low)

-----------------------------------------------------------------------------
(* app/artnet.py: calculate_nits and handle_value *)

MAX_NITS == 11000

\* the 16-bit full scale, the divisor of calculate_nits
FullScale == 65535

\* round(num / den) for num >= 0, den > 0: to the nearest integer, a tie to
\* the even one
RoundHalfEven(num, den) ==
    LET q == num \div den
        r == num % den
    IN  IF 2 * r > den THEN q + 1
        ELSE IF 2 * r < den THEN q
        ELSE IF q % 2 = 0 THEN q ELSE q + 1

\* calculate_nits that truncates instead of rounding
CalculateNitsTruncates(value_16bit) == (value_16bit * MAX_NITS) \div FullScale

\* round((value_16bit / 65535) * MAX_NITS); over 0..65535 the float quotient
\* is never closer than 1/26214 to a half, so it rounds as the exact one
calculate_nits(value_16bit) == RoundHalfEven(value_16bit * MAX_NITS, FullScale)

\* the property current_value
current_value(self) ==
    IF self.last_value # None THEN self.last_value[1] ELSE 0

\* handle_value that compares with current_value (0 before any value)
\* instead of _last_value
HandleValueComparesCurrent(self, cbs, value_16bit) ==
    LET nits == calculate_nits(value_16bit)
    IN  IF nits # current_value(self)
        THEN [self |-> [self EXCEPT !.last_value = Some(nits)],
              callbacks |-> Append(cbs, nits)]
        ELSE [self |-> self, callbacks |-> cbs]

\* handle_value on a listener whose callback is set (main.py): the listener
\* and the callback's calls after it
handle_value(self, cbs, value_16bit) ==
    LET nits == calculate_nits(value_16bit)
    IN  IF Some(nits) # self.last_value
        THEN [self |-> [self EXCEPT !.last_value = Some(nits)],
              callbacks |-> Append(cbs, nits)]
        ELSE [self |-> self, callbacks |-> cbs]

CallCalculateNits ==
    /\ result' = [fn |-> "calculate_nits", value |-> calculate_nits(value16)]
    /\ UNCHANGED <<storeVars, acts, slipIn, artVars, wsVars>>

NitsInit ==
    /\ schedule = InitialSchedule
    /\ last = Answer("none", "", "none", FALSE)
    /\ acts = << >>
    /\ slipIn = 0
    /\ result = Idle
    /\ listener = DefaultListener
    /\ datagram = [data |-> << >>, out |-> [kind |-> "not parsed"]]
    /\ calls = << >>
    /\ callbacks = << >>
    /\ value16 \in 0..FullScale
    /\ WsIdle

NitsNext == CallCalculateNits

NitsSpec == NitsInit /\ [][NitsNext]_vars

\* how many values a listener handles
MaxCalls == 3

\* 16-bit values handled: 0 and 2 both give 0 nits, 3 gives 1
Values16 == {0, 2, 3, 32768, 65535}

HandleValue ==
    \E value_16bit \in Values16 :
        LET after == handle_value(listener, callbacks, value_16bit)
        IN  /\ Len(calls) < MaxCalls
            /\ calls' = Append(calls, value_16bit)
            /\ listener' = after.self
            /\ callbacks' = after.callbacks
            /\ UNCHANGED <<storeVars, slipVars, datagram, value16, wsVars>>

MapperInit ==
    /\ schedule = InitialSchedule
    /\ last = Answer("none", "", "none", FALSE)
    /\ acts = << >>
    /\ slipIn = 0
    /\ result = Idle
    /\ ArtIdle
    /\ WsIdle

MapperNext == HandleValue

MapperSpec == MapperInit /\ [][MapperNext]_vars

-----------------------------------------------------------------------------
(* Claims about the brightness mapping *)

\* C16: for every v in 0..65535 calculate_nits(v) is the integer nearest to
\* v * 11000 / 65535, lies in 0..11000, does not decrease with v, maps 0 to 0
\* and 65535 to 11000, and v * 11000 / 65535 is never a half-integer
C16_NitsNearestInteger ==
    result.fn = "calculate_nits" =>
        LET n == result.value
            twice == 2 * (n * 65535 - value16 * 11000)
        IN  /\ n \in 0..11000
            /\ twice < 65535 /\ twice > -65535
            /\ value16 < 65535 => n <= calculate_nits(value16 + 1)
            /\ value16 = 0 => n = 0
            /\ value16 = 65535 => n = 11000
            /\ (2 * value16 * 11000) % (2 * 65535) # 65535

\* 32768 has been mapped to 5500, rounding 5500.08 down
C16_Witness ==
    /\ result = [fn |-> "calculate_nits", value |-> 5500]
    /\ value16 = 32768

\* the notifications the calls must give: one for the first call and one
\* for each call whose nits differ from the nits last emitted
RECURSIVE ExpectedEmits(_, _, _)
ExpectedEmits(cs, i, emitted) ==
    IF i > Len(cs) THEN emitted
    ELSE LET nits == calculate_nits(cs[i])
         IN  ExpectedEmits(cs, i + 1,
                 IF emitted = << >> \/ emitted[Len(emitted)] # nits
                 THEN Append(emitted, nits) ELSE emitted)

\* C17: the callback is called for the first value handled and for each
\* value whose nits differ from the nits last emitted, never twice in a row
\* with the same nits, and current_value is the nits of the last value
C17_NotifiesOnChangeOnly ==
    /\ callbacks = ExpectedEmits(calls, 1, << >>)
    /\ \A i \in 1..(Len(callbacks) - 1) : callbacks[i] # callbacks[i + 1]
    /\ calls # << >> =>
           current_value(listener) = calculate_nits(calls[Len(calls)])

\* 0 then 2 then 3 were handled: 0 nits emitted for the first call, nothing
\* for the second, 1 for the third
C17_Witness ==
    /\ calls = <<0, 2, 3>>
    /\ callbacks = <<0, 1>>
    /\ current_value(listener) = 1

-----------------------------------------------------------------------------
(* Claims about the break and about the clock *)

BreakReturned == result.fn = "calculate_break_remaining"

\* C18: calculate_break_remaining returns nothing exactly when the current
\* act's actual_end is not set, and otherwise the signed seconds from now to
\* the next act's scheduled_start moved by the slip
C18_BreakRemaining ==
    BreakReturned =>
        LET current_act == acts[result.current]
            next_act == acts[result.current + 1]
            next_projected_start ==
                (next_act.scheduled_start + slipIn) % DaySeconds
        IN  /\ result.value = None <=> current_act.actual_end = None
            /\ result.value # None =>
                   result.value[1] = next_projected_start - result.at

\* the current act has ended and now is past the next act's projected
\* start: the break remaining is negative
C18_Witness ==
    /\ BreakReturned
    /\ acts[result.current].actual_end # None
    /\ result.value # None
    /\ result.value[1] < 0
    /\ result.at > acts[result.current + 1].scheduled_start + slipIn

\* C20: calculate_slip gives the same result for every current_time, so an
\* in-progress act past its scheduled end adds nothing until its end is
\* recorded
C20_SlipIgnoresClock ==
    /\ \A ct1, ct2 \in {None} \cup {Some(t) : t \in Clock}, n1, n2 \in Clock :
           calculate_slip(acts, ct1, n1) = calculate_slip(acts, ct2, n2)
    /\ SlipReturned =>
           \A ct \in {None} \cup {Some(t) : t \in Clock}, now \in Clock :
               result.value = calculate_slip(acts, ct, now)

\* the last act started late, has no end, and the slip was asked for after
\* its scheduled end: the slip is still the lateness of the start
C20_Witness ==
    /\ SlipReturned
    /\ acts # << >>
    /\ LET act == acts[Len(acts)]
       IN  /\ act.actual_start # None
           /\ act.actual_end = None
           /\ act.actual_start[1] > act.scheduled_start
           /\ result.at > act.scheduled_end
           /\ result.value = act.actual_start[1] - act.scheduled_start
           /\ result.value < result.at - act.scheduled_end

-----------------------------------------------------------------------------
(* app/websocket.py: ConnectionManager, and the tasks that broadcast *)

\* a text message: the schedule HTML (the editor's or the viewer's) or the
\* JSON of a brightness value
Message(type, editor, value) ==
    [type |-> type, editor |-> editor, value |-> value]

\* active_connections is a dict: its entries in insertion order, a deleted
\* key leaving its entry behind unused (no resize happens at these sizes)
Entry(ws, is_editor) == [ws |-> ws, is_editor |-> is_editor, live |-> TRUE]

\* len(active_connections)
Size(conns) == Cardinality({i \in 1..Len(conns) : conns[i].live})

\* websocket in active_connections
Contains(conns, ws) ==
    \E i \in 1..Len(conns) : conns[i].ws = ws /\ conns[i].live

Keys(conns) == {conns[i].ws : i \in {j \in 1..Len(conns) : conns[j].live}}

\* disconnect: the key is deleted when present
disconnect(conns, ws) ==
    [i \in 1..Len(conns) |->
        IF conns[i].ws = ws THEN [conns[i] EXCEPT !.live = FALSE]
        ELSE conns[i]]

\* the clean-up loop of a broadcast
RECURSIVE DisconnectAll(_, _, _)
DisconnectAll(conns, disconnected, i) ==
    IF i > Len(disconnected) THEN conns
    ELSE DisconnectAll(disconnect(conns, disconnected[i]), disconnected, i + 1)

\* one step of the dict iterator of a task: RuntimeError when the size is
\* not the one the iterator started with or when it finds a key after it
\* has given as many as it started with, else the next key or the end
IterNext(conns, task) ==
    LET left == {i \in (task.di_pos + 1)..Len(conns) : conns[i].live}
    IN  IF task.di_used # Size(conns) THEN [kind |-> "RuntimeError", at |-> 0]
        ELSE IF left = {} THEN [kind |-> "StopIteration", at |-> 0]
        ELSE IF task.len = 0 THEN [kind |-> "RuntimeError", at |-> 0]
        ELSE [kind |-> "key",
              at |-> CHOOSE i \in left : \A j \in left : i <= j]

\* a task before it runs
Task(kind, value_16bit) ==
    [kind |-> kind, value_16bit |-> value_16bit, pc |-> "created",
     message |-> Message(kind, FALSE, 0), di_pos |-> 0, di_used |-> 0,
     len |-> 0, target |-> 0, disconnected |-> << >>, entered |-> FALSE,
     audience |-> {}]

\* the task enters the loop of broadcast / broadcast_schedule
EnterLoop(conns, task) ==
    [task EXCEPT !.di_pos = 0, !.di_used = Size(conns), !.len = Size(conns),
                 !.entered = TRUE, !.audience = Keys(conns)]

\* the loop from its head to the next suspension in send_text, to its end
\* and the clean-up, or to the RuntimeError that leaves the broadcast
RunLoop(conns, task) ==
    LET nx == IterNext(conns, task)
    IN  IF nx.kind = "RuntimeError"
        THEN [task |-> [task EXCEPT !.pc = "raised"], conns |-> conns]
        ELSE IF nx.kind = "StopIteration"
        THEN [task |-> [task EXCEPT !.pc = "done"],
              conns |-> DisconnectAll(conns, task.disconnected, 1)]
        ELSE [task |-> [task EXCEPT
                  !.pc = "sending", !.di_pos = nx.at, !.len = @ - 1,
                  !.target = conns[nx.at].ws,
                  !.message = IF task.kind = "schedule"
                              THEN Message("schedule",
                                           conns[nx.at].is_editor, 0)
                              ELSE @],
              conns |-> conns]

\* the sends in flight after task k ran
Suspended(waiting, k, task) ==
    IF task.pc = "sending" THEN Append(waiting, k) ELSE waiting

\* websocket_endpoint: the connection is accepted and added
connect ==
    \E ws \in WebSockets, is_editor \in BOOLEAN :
        /\ websockets[ws] = "new"
        /\ websockets' = [websockets EXCEPT ![ws] = "open"]
        /\ active_connections' = Append(active_connections,
                                        Entry(ws, is_editor))
        /\ UNCHANGED <<storeVars, slipVars, artVars, current_brightness,
                       tasks, inflight, received>>

\* the client of an open WebSocket goes away
ClientCloses ==
    \E ws \in WebSockets :
        /\ websockets[ws] = "open"
        /\ websockets' = [websockets EXCEPT ![ws] = "closed"]
        /\ UNCHANGED <<storeVars, slipVars, artVars, active_connections,
                       current_brightness, tasks, inflight, received>>

\* websocket_endpoint: receive_text raises WebSocketDisconnect
websocket_disconnect ==
    \E ws \in WebSockets :
        /\ websockets[ws] = "closed"
        /\ Contains(active_connections, ws)
        /\ active_connections' = disconnect(active_connections, ws)
        /\ UNCHANGED <<storeVars, slipVars, artVars, websockets,
                       current_brightness, tasks, inflight, received>>

\* broadcast_schedule_update, awaited by a handler or by poll_schedule: it
\* runs to its first send
broadcast_schedule ==
    LET k == Len(tasks) + 1
        after == RunLoop(active_connections,
                         EnterLoop(active_connections, Task("schedule", 0)))
    IN  /\ Len(tasks) < MaxTasks
        /\ tasks' = Append(tasks, after.task)
        /\ active_connections' = after.conns
        /\ inflight' = Suspended(inflight, k, after.task)
        /\ UNCHANGED <<storeVars, slipVars, artVars, websockets,
                       current_brightness, received>>

\* 16-bit values of the valid packets received: 1 nit and 5500 nits
BrightValues == {3, 32768}

\* datagram_received on a valid packet: asyncio.create_task(handle_value)
create_task ==
    \E value_16bit \in BrightValues :
        /\ Len(tasks) < MaxTasks
        /\ tasks' = Append(tasks, Task("brightness", value_16bit))
        /\ UNCHANGED <<storeVars, slipVars, artVars, websockets,
                       active_connections, current_brightness, inflight,
                       received>>

\* the event loop runs the oldest task not yet started: handle_value, and
\* when the nits changed on_brightness_change, broadcast_brightness and
\* broadcast to its first send
handle_value_task ==
    \E k \in 1..Len(tasks) :
        LET task == tasks[k]
            nits == calculate_nits(task.value_16bit)
            handled == handle_value(listener, callbacks, task.value_16bit)
            after == RunLoop(active_connections,
                         EnterLoop(active_connections,
                             [task EXCEPT !.message =
                                 Message("brightness", FALSE, nits)]))
        IN  /\ task.pc = "created"
            /\ \A j \in 1..(k - 1) : tasks[j].pc # "created"
            /\ calls' = Append(calls, task.value_16bit)
            /\ listener' = handled.self
            /\ callbacks' = handled.callbacks
            /\ IF handled.callbacks # callbacks
               THEN /\ current_brightness' = nits
                    /\ tasks' = [tasks EXCEPT ![k] = after.task]
                    /\ active_connections' = after.conns
                    /\ inflight' = Suspended(inflight, k, after.task)
               ELSE /\ tasks' = [tasks EXCEPT ![k].pc = "done"]
                    /\ UNCHANGED <<current_brightness, active_connections,
                                   inflight>>
            /\ UNCHANGED <<storeVars, slipVars, datagram, value16,
                           websockets, received>>

\* the send a task is suspended in ends, the sends to one WebSocket ending
\* in the order they were made: the text is delivered, or the WebSocket is
\* closed and the exception puts it on the disconnected list; the loop
\* goes on to its next suspension
send_text ==
    \E k \in 1..Len(tasks) :
        LET task == tasks[k]
            delivered == websockets[task.target] = "open"
            resumed == IF delivered THEN task
                       ELSE [task EXCEPT
                                !.disconnected = Append(@, task.target)]
            after == RunLoop(active_connections, resumed)
            others == SelectSeq(inflight, LAMBDA j : j # k)
        IN  /\ task.pc = "sending"
            /\ \E n \in 1..Len(inflight) :
                   /\ inflight[n] = k
                   /\ \A m \in 1..(n - 1) :
                          tasks[inflight[m]].target # task.target
            /\ received' = IF delivered
                           THEN [received EXCEPT
                                    ![task.target] = Append(@, task.message)]
                           ELSE received
            /\ tasks' = [tasks EXCEPT ![k] = after.task]
            /\ active_connections' = after.conns
            /\ inflight' = Suspended(others, k, after.task)
            /\ UNCHANGED <<storeVars, slipVars, artVars, websockets,
                           current_brightness>>

WsInit ==
    /\ schedule = InitialSchedule
    /\ last = Answer("none", "", "none", FALSE)
    /\ acts = << >>
    /\ slipIn = 0
    /\ result = Idle
    /\ ArtIdle
    /\ WsIdle

WsNext ==
    \/ connect
    \/ ClientCloses
    \/ websocket_disconnect
    \/ broadcast_schedule
    \/ create_task
    \/ handle_value_task
    \/ send_text

WsSpec == WsInit /\ [][WsNext]_vars

-----------------------------------------------------------------------------
(* Claims about broadcasts *)

\* the WebSocket was connected when the task entered its loop and is still
Stayed(task, ws) ==
    /\ ws \in task.audience
    /\ websockets[ws] = "open"
    /\ Contains(active_connections, ws)

\* the text the task sends to the WebSocket
TextFor(task, ws) ==
    IF task.kind = "schedule"
    THEN Message("schedule",
                 \E i \in 1..Len(active_connections) :
                     /\ active_connections[i].ws = ws
                     /\ active_connections[i].is_editor, 0)
    ELSE task.message

\* C21: no broadcast fails because connections came or went while it was
\* suspended at a send, and a finished broadcast has sent its message to
\* every client that stayed connected throughout
C21_BroadcastSurvivesChurn ==
    \A k \in 1..Len(tasks) :
        /\ tasks[k].pc # "raised"
        /\ tasks[k].pc = "done" /\ tasks[k].entered =>
               \A ws \in WebSockets :
                   Stayed(tasks[k], ws) =>
                       \E i \in 1..Len(received[ws]) :
                           received[ws][i] = TextFor(tasks[k], ws)

AllFinished ==
    /\ tasks # << >>
    /\ \A k \in 1..Len(tasks) : tasks[k].pc \in {"done", "raised"}

\* the brightness values a WebSocket's client received, in order
RECURSIVE BrightnessOf(_, _)
BrightnessOf(msgs, i) ==
    IF i > Len(msgs) THEN << >>
    ELSE IF msgs[i].type = "brightness"
         THEN <<msgs[i].value>> \o BrightnessOf(msgs, i + 1)
         ELSE BrightnessOf(msgs, i + 1)

\* connected from before the first brightness broadcast until now
ConnectedThroughout(ws) ==
    /\ websockets[ws] = "open"
    /\ Contains(active_connections, ws)
    /\ \A k \in 1..Len(tasks) :
           tasks[k].kind = "brightness" /\ tasks[k].entered =>
               ws \in tasks[k].audience

\* C22: once every task has finished, each connected client has received
\* the brightness messages in the order the packets arrived, and the last
\* one is the listener's current_value and the manager's current_brightness
C22_BrightnessInArrivalOrder ==
    AllFinished =>
        \A ws \in WebSockets :
            ConnectedThroughout(ws) =>
                LET got == BrightnessOf(received[ws], 1)
                IN  /\ got = callbacks
                    /\ callbacks # << >> =>
                           /\ got # << >>
                           /\ got[Len(got)] = current_value(listener)
                           /\ got[Len(got)] = current_brightness

-----------------------------------------------------------------------------
(* test_artnet.py: build_artnet_dmx_packet, and the listener's parse of it *)

\* n.to_bytes(2, byteorder="little" / "big") for n in 0..65535
ToLittle(n) == <<n % 256, n \div 256>>

ToBig(n) == <<n \div 256, n % 256>>

\* build_artnet_dmx_packet that writes the universe big-endian
BuildUniverseBigEndian(universe, channel_high, channel_low, value_16bit) ==
    LET dmx_length == Max(Max(channel_high, channel_low), 2)
        dmx_data == [i \in 1..dmx_length |->
                        IF i = channel_low THEN value_16bit % 256
                        ELSE IF i = channel_high
                             THEN (value_16bit \div 256) % 256
                             ELSE 0]
    IN  ARTNET_HEADER \o ToLittle(ARTNET_OPCODE_DMX) \o ToBig(14) \o <<0>>
            \o <<0>> \o ToBig(universe) \o ToBig(dmx_length) \o dmx_data

\* the DMX data is all zero but for the high byte at channel_high and,
\* written after it, the low byte at channel_low (channels count from 1)
build_artnet_dmx_packet(universe, channel_high, channel_low, value_16bit) ==
    LET high_byte == (value_16bit \div 256) % 256
        low_byte == value_16bit % 256
        max_channel == Max(channel_high, channel_low)
        dmx_length == Max(max_channel, 2)
        dmx_data == [i \in 1..dmx_length |->
                        IF i = channel_low THEN low_byte
                        ELSE IF i = channel_high THEN high_byte ELSE 0]
    IN  ARTNET_HEADER \o ToLittle(ARTNET_OPCODE_DMX) \o ToBig(14) \o <<0>>
            \o <<0>> \o ToLittle(universe) \o ToBig(dmx_length) \o dmx_data

\* universes of sender and listener
TripUniverses == {0, 1, 256, 65535}

\* channels of the 16-bit value, the first and the last of a universe among
\* them
TripChannels == {1, 2, 3, 512}

TripValues == {0, 255, 256, 4660, 32768, 65535}

\* the sender builds a packet for the listener's channels
SendBuilt ==
    \E universe \in TripUniverses :
        /\ datagram.data = << >>
        /\ datagram' = [data |-> build_artnet_dmx_packet(universe,
                                     listener.channel_high,
                                     listener.channel_low, value16),
                        out |-> [kind |-> "not parsed"],
                        universe |-> universe]
        /\ UNCHANGED <<storeVars, slipVars, listener, calls, callbacks,
                       value16, wsVars>>

\* the listener parses the packet built
ReceiveBuilt ==
    /\ datagram.data # << >>
    /\ datagram.out.kind = "not parsed"
    /\ datagram' = [datagram EXCEPT
                       !.out = parse_packet(listener, datagram.data)]
    /\ UNCHANGED <<storeVars, slipVars, listener, calls, callbacks, value16,
                   wsVars>>

TripInit ==
    /\ schedule = InitialSchedule
    /\ last = Answer("none", "", "none", FALSE)
    /\ acts = << >>
    /\ slipIn = 0
    /\ result = Idle
    /\ listener \in {ArtNetListener(u, ch, cl) :
                        u \in TripUniverses,
                        ch \in TripChannels, cl \in TripChannels}
    /\ listener.channel_high # listener.channel_low
    /\ datagram = [data |-> << >>, out |-> [kind |-> "not parsed"],
                   universe |-> 0]
    /\ calls = << >>
    /\ callbacks = << >>
    /\ value16 \in TripValues
    /\ WsIdle

TripNext ==
    \/ SendBuilt
    \/ ReceiveBuilt

TripSpec == TripInit /\ [][TripNext]_vars

-----------------------------------------------------------------------------
(* Claims about building and parsing *)

BuiltAndParsed == datagram.data # << >> /\ datagram.out.kind # "not parsed"

\* C23: a listener parses the packet built for its universe, its two
\* distinct channels and a value to exactly that value, and the packet built
\* for another universe to no value
C23_BuildParseRoundTrip ==
    BuiltAndParsed =>
        IF datagram.universe = listener.universe
        THEN datagram.out = ParsedValue(value16)
        ELSE datagram.out = ParsedNone

\* 4660 came back from a packet whose low channel is the last of the
\* universe and lies after the high channel
C23_Witness ==
    /\ BuiltAndParsed
    /\ datagram.universe = 256
    /\ listener.channel_high = 3
    /\ listener.channel_low = 512
    /\ Len(datagram.data) = 530
    /\ datagram.out = ParsedValue(4660)

====
